---- MODULE Spec2Model ----
(***************************************************************************)
(* Solana encrypted chat: the client library (app/index.js, class          *)
(* EncryptedChat), the command line front end (cli.js) and the on-chain    *)
(* program they drive (programs/solana-encrypted-chat/src/lib.rs).         *)
(*                                                                         *)
(* The on-chain program is not part of the sources at hand; its two        *)
(* instruction handlers are modelled from the specification (section 4.3)  *)
(* and are named ProgramInitialize and ProgramSendMessage.  Everything     *)
(* else is translated from the JavaScript sources.                         *)
(***************************************************************************)
EXTENDS Integers, Sequences, FiniteSets, TLC

(***************************************************************************)
(* Bounds of the model.                                                    *)
(***************************************************************************)
\* The room stops accepting sends once message_count has reached this value.
MaxMessages == 2
\* The ledger clock (seconds) runs from 0 to this value.
MaxTime == 1

(***************************************************************************)
(* Program constants.                                                      *)
(***************************************************************************)
\* forge.pki.rsa.generateKeyPair({ bits: 2048 }): a 256-byte modulus.
ModulusBytes == 256
\* RSA-OAEP as forge runs it by default: SHA-1, 20 bytes.
HashLen == 20
\* The record's payload capacity ("currently 512 bytes").
MaxRecordPayload == 512
\* messageCount.toArrayLike(Buffer, 'le', 8)
CounterBytes == 8

(***************************************************************************)
(* Identities.  Every label has a Solana keypair (keys/<label>.json) and   *)
(* an RSA key pair (keys/<label>_encryption.json); the model starts after  *)
(* `node cli.js setup`, with both files of both labels on disk, so every   *)
(* command loads the same keys.                                            *)
(***************************************************************************)
Users == {"alice", "bob"}

\* keypair.publicKey.toString(): the identity as the ledger compares it.
IdentityOf(label) == [pubkey |-> label]

\* The RSA key pair of a label: publicKey and privateKey carry the same
\* key number; two labels never share one.
KeyNumber(label) == IF label = "alice" THEN 1 ELSE IF label = "bob" THEN 2 ELSE 3

\* EncryptedChat.generateKeyPair, the n-th key pair made.
generateKeyPair(n) ==
    [publicKey |-> [rsa |-> "public", key |-> n],
     privateKey |-> [rsa |-> "private", key |-> n]]

EncryptionKeys(label) ==
    [publicKey |-> [rsa |-> "public", key |-> KeyNumber(label)],
     privateKey |-> [rsa |-> "private", key |-> KeyNumber(label)]]

(***************************************************************************)
(* Byte strings are sequences of numbers 0..255.  Base64 text is a         *)
(* sequence of sextets 0..63, with 64 for the padding character '='.       *)
(***************************************************************************)
Pad64 == 64

\* One sextet of the canonical encoding of byte string b (1-based index i).
Sextet(b, i) ==
    LET g  == (i - 1) \div 4
        k  == (i - 1) % 4
        n  == Len(b)
        b0 == b[3 * g + 1]
        b1 == IF 3 * g + 2 <= n THEN b[3 * g + 2] ELSE 0
        b2 == IF 3 * g + 3 <= n THEN b[3 * g + 3] ELSE 0
    IN  CASE k = 0 -> b0 \div 4
          [] k = 1 -> (b0 % 4) * 16 + (b1 \div 16)
          [] k = 2 -> IF 3 * g + 2 > n THEN Pad64 ELSE (b1 % 16) * 4 + (b2 \div 64)
          [] OTHER -> IF 3 * g + 3 > n THEN Pad64 ELSE b2 % 64

\* forge.util.encode64(bytes): canonical base64 with padding, no line breaks.
Encode64(b) == [i \in 1..(4 * ((Len(b) + 2) \div 3)) |-> Sextet(b, i)]

\* Variant: the encoding leaves the padding out.
BufferToBase64_Unpadded(b) ==
    SelectSeq([i \in 1..(4 * ((Len(b) + 2) \div 3)) |-> Sextet(b, i)],
              LAMBDA ch : ch # Pad64)

\* Buffer.from(bytes).toString('base64'): canonical base64 with padding.
BufferToBase64(b) == [i \in 1..(4 * ((Len(b) + 2) \div 3)) |-> Sextet(b, i)]

\* The sextets a decoder reads: everything before the first padding
\* character, characters outside the alphabet dropped.
FirstPad(s) ==
    LET pads == {i \in 1..Len(s) : s[i] = Pad64}
    IN  IF pads = {} THEN Len(s) + 1
        ELSE CHOOSE i \in pads : \A j \in pads : i <= j

Sextets(s) ==
    LET cut == FirstPad(s)
    IN  SelectSeq(SubSeq(s, 1, cut - 1), LAMBDA ch : ch < Pad64)

\* One byte of the decoding of sextet sequence t (1-based index j).
DecodedByte(t, j) ==
    LET g  == (j - 1) \div 3
        r  == (j - 1) % 3
        t1 == t[4 * g + 1]
        t2 == t[4 * g + 2]
        t3 == IF 4 * g + 3 <= Len(t) THEN t[4 * g + 3] ELSE 0
        t4 == IF 4 * g + 4 <= Len(t) THEN t[4 * g + 4] ELSE 0
    IN  CASE r = 0 -> t1 * 4 + (t2 \div 16)
          [] r = 1 -> (t2 % 16) * 16 + (t3 \div 4)
          [] OTHER -> (t3 % 4) * 64 + t4

\* Buffer.from(text, 'base64'): lenient, never throws.
BufferFromBase64(s) ==
    LET t == Sextets(s)
    IN  [j \in 1..((Len(t) * 3) \div 4) |-> DecodedByte(t, j)]

\* forge.util.decode64(text)
Decode64(s) ==
    LET t == Sextets(s)
    IN  [j \in 1..((Len(t) * 3) \div 4) |-> DecodedByte(t, j)]

(***************************************************************************)
(* The RSA-OAEP envelope.  The arithmetic of RSA is not modelled: a        *)
(* ciphertext is a block of ModulusBytes bytes that names the key it was   *)
(* made for, the OAEP seed, and carries the plaintext; only the private   *)
(* key with the same key number opens it.                                  *)
(***************************************************************************)
Zeros(n) == [i \in 1..n |-> 0]

\* The longest plaintext RSA-OAEP takes under a key of ModulusBytes bytes.
MaxPayload == ModulusBytes - 2 * HashLen - 2

\* A plaintext is a JavaScript string, a sequence of UTF-16 code units
\* 0..65535; forge takes every code unit for one byte.
\* encode_rsa_oaep: the encoded message, ModulusBytes characters long.  The
\* plaintext's code units go into it as they are (xorBytes works on
\* charCodeAt and String.fromCharCode).
OaepEncode(message, publicKey, seed) ==
    <<0, publicKey.key, seed, Len(message)>> \o message
        \o Zeros(ModulusBytes - 4 - Len(message))

\* ByteStringBuffer.toHex(): a character is written as charCodeAt(i)
\* .toString(16), padded to two digits; a code unit over 255 takes three or
\* four digits.
HexLen(b) == IF b < 256 THEN 2 ELSE IF b < 4096 THEN 3 ELSE 4

WideChars(s) == {i \in 1..Len(s) : s[i] > 255}

RECURSIVE ExtraDigits(_, _)
ExtraDigits(s, W) ==
    IF W = {} THEN 0
    ELSE LET i == CHOOSE j \in W : TRUE
         IN  HexLen(s[i]) - 2 + ExtraDigits(s, W \ {i})

\* The number of hex digits of the integer pki.rsa.encrypt makes of the
\* encoded message: new BigInteger(eb.toHex(), 16).
ToHexLength(s) == 2 * Len(s) + ExtraDigits(s, WideChars(s))

\* pki.rsa.encrypt(em, key, true): x = the integer of em's hex digits,
\* y = x^e mod n.  When the digits are those of ModulusBytes bytes, x < n
\* (the leading byte is 0) and the private key recovers em.  With more
\* digits x >= n, and the private key recovers x mod n, which is no encoded
\* message: its leading byte is taken as 1.
RsaEncrypt(em) ==
    IF ToHexLength(em) <= 2 * ModulusBytes THEN em
    ELSE [i \in 1..ModulusBytes |-> IF i = 1 THEN 1 ELSE em[i] % 256]

\* publicKey.encrypt(message, 'RSA-OAEP') with the given OAEP seed.
RsaOaepEncrypt(message, publicKey, seed) ==
    RsaEncrypt(OaepEncode(message, publicKey, seed))

\* Variant: the block opens under any private key.
RsaOaepDecrypt_AnyKey(encrypted, privateKey) ==
    IF Len(encrypted) # ModulusBytes
    THEN [ok |-> FALSE, error |-> "Encrypted message length is invalid."]
    ELSE IF encrypted[1] # 0 \/ encrypted[4] > MaxPayload
    THEN [ok |-> FALSE, error |-> "Invalid RSAES-OAEP padding."]
    ELSE [ok |-> TRUE, value |-> SubSeq(encrypted, 5, 4 + encrypted[4])]

\* privateKey.decrypt(encrypted, 'RSA-OAEP'): the plaintext, or the error
\* forge throws.
RsaOaepDecrypt(encrypted, privateKey) ==
    IF Len(encrypted) # ModulusBytes
    THEN [ok |-> FALSE, error |-> "Encrypted message length is invalid."]
    ELSE IF encrypted[1] # 0 \/ encrypted[2] # privateKey.key
              \/ encrypted[4] > MaxPayload
    THEN [ok |-> FALSE, error |-> "Invalid RSAES-OAEP padding."]
    ELSE [ok |-> TRUE, value |-> SubSeq(encrypted, 5, 4 + encrypted[4])]

\* Variant: a plaintext over the maximum payload is cut to it.
encryptMessage_Truncate(message, recipientPublicKey, seed) ==
    LET cut == IF Len(message) > MaxPayload THEN SubSeq(message, 1, MaxPayload)
               ELSE message
    IN  [ok |-> TRUE,
         value |-> Encode64(RsaOaepEncrypt(cut, recipientPublicKey, seed))]

\* EncryptedChat.encryptMessage: base64 of the ciphertext, or the error
\* rethrown by the catch block.
encryptMessage(message, recipientPublicKey, seed) ==
    IF Len(message) > MaxPayload
    THEN [ok |-> FALSE, error |-> "RSAES-OAEP input message length is too long."]
    ELSE [ok |-> TRUE,
          value |-> Encode64(RsaOaepEncrypt(message, recipientPublicKey, seed))]

\* EncryptedChat.decryptMessage: the plaintext, or the error rethrown by
\* the catch block.
decryptMessage(encryptedMessage, privateKey) ==
    RsaOaepDecrypt(Decode64(encryptedMessage), privateKey)

(***************************************************************************)
(* Program derived addresses.  findProgramAddress hashes the seeds with    *)
(* the program id; the hash is collision resistant, so an address is       *)
(* modelled by the seeds it was derived from.                              *)
(***************************************************************************)
\* Byte i (1-based, least significant first) of the number n.
RECURSIVE ByteLE(_, _)
ByteLE(n, i) == IF i = 1 THEN n % 256 ELSE ByteLE(n \div 256, i - 1)

\* Variant: only the lowest byte of the count is significant.
ToArrayLikeLE_LowByte(n) == [i \in 1..CounterBytes |-> IF i = 1 THEN n % 256 ELSE 0]

\* bn.toArrayLike(Buffer, 'le', 8)
ToArrayLikeLE(n) == [i \in 1..CounterBytes |-> ByteLE(n, i)]

findProgramAddress(seeds) == [seeds |-> seeds]

\* EncryptedChat.initialize: the chat room's address.
ChatRoomPda == findProgramAddress(<<"chat_room">>)

\* Variant: the address is derived from the count plus one.
MessagePda_OffByOne(messageCount) ==
    findProgramAddress(<<"message", ToArrayLikeLE(messageCount + 1)>>)

\* EncryptedChat.sendMessage: the address of the message numbered
\* messageCount.
MessagePda(messageCount) ==
    findProgramAddress(<<"message", ToArrayLikeLE(messageCount)>>)

(***************************************************************************)
(* The on-chain program, from the specification: the ledger is a store of  *)
(* accounts keyed by address.  A handler returns whether the transaction   *)
(* succeeded, the error it failed with, and the store it leaves; a failed  *)
(* transaction leaves the store as it was.                                 *)
(***************************************************************************)
Put(store, address, data) ==
    [a \in DOMAIN store \cup {address} |-> IF a = address THEN data ELSE store[a]]

\* Variant: initialize writes message_count = 0 whether or not the counter
\* exists.
ProgramInitialize_Reset(store, chatRoom) ==
    [ok |-> TRUE, error |-> "",
     store |-> Put(store, chatRoom, [kind |-> "chatRoom", messageCount |-> 0])]

\* initialize: create the RoomCounter with message_count = 0 if absent.
ProgramInitialize(store, chatRoom) ==
    IF chatRoom \in DOMAIN store
    THEN [ok |-> FALSE, error |-> "AlreadyInitialized", store |-> store]
    ELSE [ok |-> TRUE, error |-> "",
          store |-> Put(store, chatRoom, [kind |-> "chatRoom", messageCount |-> 0])]

\* Variant: send_message writes the record and leaves the counter alone.
ProgramSendMessage_NoIncrement(store, message, chatRoom, sender, encryptedContent, recipient, clock) ==
    IF chatRoom \notin DOMAIN store
    THEN [ok |-> FALSE, error |-> "AccountNotInitialized", store |-> store]
    ELSE IF Len(encryptedContent) > MaxRecordPayload
    THEN [ok |-> FALSE, error |-> "PayloadTooLarge", store |-> store]
    ELSE IF message \in DOMAIN store
    THEN [ok |-> FALSE, error |-> "AddressCollision", store |-> store]
    ELSE [ok |-> TRUE, error |-> "",
          store |-> Put(store, message,
                        [kind |-> "message", sender |-> sender,
                         recipient |-> recipient,
                         encryptedContent |-> encryptedContent,
                         timestamp |-> clock,
                         messageId |-> store[chatRoom].messageCount])]

\* Variant: send_message writes to the message address whether or not it is
\* occupied.
ProgramSendMessage_Overwrite(store, message, chatRoom, sender, encryptedContent, recipient, clock) ==
    IF chatRoom \notin DOMAIN store
    THEN [ok |-> FALSE, error |-> "AccountNotInitialized", store |-> store]
    ELSE IF Len(encryptedContent) > MaxRecordPayload
    THEN [ok |-> FALSE, error |-> "PayloadTooLarge", store |-> store]
    ELSE LET n == store[chatRoom].messageCount
         IN  [ok |-> TRUE, error |-> "",
              store |-> Put(Put(store, message,
                                [kind |-> "message", sender |-> sender,
                                 recipient |-> recipient,
                                 encryptedContent |-> encryptedContent,
                                 timestamp |-> clock, messageId |-> n]),
                            chatRoom, [kind |-> "chatRoom", messageCount |-> n + 1])]

\* send_message: write the record at the message address and increment the
\* counter, together or not at all.
ProgramSendMessage(store, message, chatRoom, sender, encryptedContent, recipient, clock) ==
    IF chatRoom \notin DOMAIN store
    THEN [ok |-> FALSE, error |-> "AccountNotInitialized", store |-> store]
    ELSE IF Len(encryptedContent) > MaxRecordPayload
    THEN [ok |-> FALSE, error |-> "PayloadTooLarge", store |-> store]
    ELSE IF message \in DOMAIN store
    THEN [ok |-> FALSE, error |-> "AddressCollision", store |-> store]
    ELSE LET n == store[chatRoom].messageCount
             record == [kind |-> "message",
                        sender |-> sender,
                        recipient |-> recipient,
                        encryptedContent |-> encryptedContent,
                        timestamp |-> clock,
                        messageId |-> n]
         IN  [ok |-> TRUE, error |-> "",
              store |-> Put(Put(store, message, record), chatRoom,
                            [kind |-> "chatRoom", messageCount |-> n + 1])]

(***************************************************************************)
(* Inputs.                                                                 *)
(***************************************************************************)
\* Plaintexts typed on the command line ("Hi", "Yo").
Hi == <<72, 105>>
Yo == <<89, 111>>

\* The longest plaintext the scheme takes, and one character more.
Longest == [i \in 1..MaxPayload |-> 97]
TooLong == [i \in 1..(MaxPayload + 1) |-> 97]

\* node cli.js send [from] [to] [message]
CliSendArgs ==
    {<<"alice", "bob", Hi>>, <<"alice", "bob", Yo>>,
     <<"bob", "alice", Hi>>, <<"bob", "alice", TooLong>>}

\* The seeds RSA-OAEP may draw for one encryption (one value here: two
\* encryptions of a plaintext under a key give the same ciphertext).
OaepSeeds == {0}

\* Buffer.from("Mock"): a payload that is no RSA ciphertext, as the test
\* suite sends.
MockEncryptedMessage == <<77, 111, 99, 107>>

\* A payload one byte over the record's capacity.
OversizedPayload == Zeros(MaxRecordPayload + 1)

\* Base64 text broken into lines, as MIME writes it and as
\* forge.util.encode64(bytes, maxline) returns it: a line break (a character
\* outside the alphabet) after the first four characters.
Wrapped(text) == SubSeq(text, 1, 4) \o <<Pad64 + 1>> \o SubSeq(text, 5, Len(text))

\* Direct callers of EncryptedChat.sendMessage(encryptedMessage,
\* recipientPublicKey): <<caller, base64 text, recipient label>>.
ApiSendArgs ==
    {<<"alice", Wrapped(Encode64(MockEncryptedMessage)), "bob">>,
     <<"bob", Encode64(OversizedPayload), "alice">>}

(***************************************************************************)
(* Tables of the conversions on the inputs above, computed once: a step    *)
(* looks its argument up and computes the conversion only for an argument  *)
(* the tables do not hold.                                                 *)
(***************************************************************************)
Cached(table, x, value) == IF x \in DOMAIN table THEN table[x] ELSE value

\* A function held as the table of its values rather than as its rule.
Tabulated(f) == f @@ <<>>

EncryptTable ==
    Tabulated([q \in {<<a[3], a[2], seed>> : a \in CliSendArgs, seed \in OaepSeeds} |->
        encryptMessage(q[1], EncryptionKeys(q[2]).publicKey, q[3])])

\* The key pairs a machine makes when it starts with no keys directory:
\* two files for every label.
KeyNumbers == 1..(2 * Cardinality(Users))

GeneratedEncryptTable ==
    Tabulated([q \in {<<a[3], n, seed>> : a \in CliSendArgs, n \in KeyNumbers, seed \in OaepSeeds} |->
        encryptMessage(q[1], generateKeyPair(q[2]).publicKey, q[3])])

SendTexts ==
    {EncryptTable[q].value : q \in {r \in DOMAIN EncryptTable : EncryptTable[r].ok}}
        \cup {a[2] : a \in ApiSendArgs}
        \cup {GeneratedEncryptTable[q].value :
                 q \in {r \in DOMAIN GeneratedEncryptTable : GeneratedEncryptTable[r].ok}}

BufferFromBase64Table ==
    Tabulated([t \in SendTexts |-> BufferFromBase64(t)])

Payloads == {BufferFromBase64Table[t] : t \in SendTexts}

BufferToBase64Table ==
    Tabulated([b \in Payloads |-> BufferToBase64(b)])

DecryptTable ==
    Tabulated([q \in {BufferToBase64Table[b] : b \in Payloads} \X Users |->
        decryptMessage(q[1], EncryptionKeys(q[2]).privateKey)])

GeneratedDecryptTable ==
    Tabulated([q \in {BufferToBase64Table[b] : b \in Payloads} \X KeyNumbers |->
        decryptMessage(q[1], generateKeyPair(q[2]).privateKey)])

(***************************************************************************)
(* State.                                                                  *)
(***************************************************************************)
VARIABLES
    store,   \* the ledger: address -> account
    clock,   \* the ledger's clock, in seconds
    proc,    \* per label: the command that label is running, and its locals
    log,     \* history: the sends the ledger committed, in commit order
    codec,   \* a run of the codec and the address derivation on their own
    pending, \* per label: the sends a retrying sender still has to make
    seen,    \* per label: history, the messages the label's last scan returned
    keys     \* the keys directory of the command line: file name -> contents

vars == <<store, clock, proc, log, codec, pending, seen, keys>>

Idle ==
    [pc |-> "idle", command |-> "", messageCount |-> 0, messagePda |-> ChatRoomPda,
     encryptedMessage |-> <<>>, recipient |-> "", message |-> <<>>,
     messages |-> <<>>, output |-> <<>>, error |-> ""]

\* The codec run before its first step.
CodecIdle ==
    [pc |-> "start", message |-> <<>>, to |-> "", by |-> "",
     encrypted |-> [ok |-> FALSE, error |-> ""],
     decrypted |-> [ok |-> FALSE, error |-> ""],
     counts |-> <<>>, pdas |-> <<>>]

\* path.join(__dirname, 'keys', filename) for the two files of a label.
KeypairFile(label) == <<label, ".json">>
EncryptionFile(label) == <<label, "_encryption.json">>

\* The keys directory once `node cli.js setup` has run.
KeysAfterSetup ==
    [dir |-> TRUE,
     made |-> 2 * Cardinality(Users),
     files |-> [f \in {KeypairFile(u) : u \in Users} \cup {EncryptionFile(u) : u \in Users} |->
                  IF f[2] = ".json" THEN IdentityOf(f[1]) ELSE EncryptionKeys(f[1])]]

\* A sender with nothing left to send.
NothingPending == [queue |-> <<>>, rejected |-> 0]

Init ==
    /\ store = [a \in {} |-> 0]
    /\ clock = 0
    /\ proc = [c \in Users |-> Idle]
    /\ log = <<>>
    /\ codec = CodecIdle
    /\ pending = [c \in Users |-> NothingPending]
    /\ seen = [c \in Users |-> {}]
    /\ keys = KeysAfterSetup

Finish(c, command, pc, error) ==
    proc' = [proc EXCEPT ![c] =
                [@ EXCEPT !.command = command, !.pc = pc, !.error = error]]

\* A command that has ended shows its outcome and its process exits before
\* any other step is taken: the exit touches nothing but the command's own
\* locals, so every history of the ledger is still a behaviour.
Quiet == \A d \in Users : proc[d].pc \in {"idle", "send"}

\* The ledger's clock advances.
Tick ==
    /\ Quiet
    /\ clock < MaxTime
    /\ clock' = clock + 1
    /\ UNCHANGED <<store, proc, log, codec, pending, seen, keys>>

(***************************************************************************)
(* node cli.js init [user]                                                 *)
(***************************************************************************)
\* Variant: the catch block rethrows, as sendMessage's does.
initializeChatRoom_Rethrow(rpcError) ==
    [thrown |-> rpcError # "", logged |-> rpcError]

\* What initializeChatRoom hands back to its caller, given the outcome of
\* the rpc: the catch block logs the error and returns undefined.
initializeChatRoom(rpcError) ==
    [thrown |-> FALSE, logged |-> rpcError]

\* The initialize transaction is processed by the ledger.
CliInit(c) ==
    /\ Quiet
    /\ proc[c].pc = "idle"
    /\ LET r == ProgramInitialize(store, ChatRoomPda)
           ret == initializeChatRoom(r.error)
       IN  /\ store' = r.store
           /\ IF ret.thrown
              THEN Finish(c, "init", "failed", r.error)
              ELSE Finish(c, "init", "initialized", ret.logged)
    /\ UNCHANGED <<clock, log, codec, pending, seen, keys>>

\* The initialize transaction meets a transport error: the caller sees the
\* error whether or not the transaction landed.
CliInitTransportError(c) ==
    /\ Quiet
    /\ proc[c].pc = "idle"
    /\ \E landed \in BOOLEAN :
         LET r == ProgramInitialize(store, ChatRoomPda)
             ret == initializeChatRoom("TransportError")
         IN  /\ store' = IF landed THEN r.store ELSE store
             /\ IF ret.thrown
                THEN Finish(c, "init", "failed", "TransportError")
                ELSE Finish(c, "init", "initialized", ret.logged)
    /\ UNCHANGED <<clock, log, codec, pending, seen, keys>>

(***************************************************************************)
(* EncryptedChat.sendMessage(encryptedMessage, recipientPublicKey)         *)
(***************************************************************************)
\* Variant: the count is the one of the first fetch, 0, and is not read
\* again.
FetchChatRoom_Stale(s) ==
    IF ChatRoomPda \in DOMAIN s
    THEN [ok |-> TRUE, account |-> [kind |-> "chatRoom", messageCount |-> 0]]
    ELSE [ok |-> FALSE, error |-> "Account does not exist"]

\* Variant: a missing counter is read as a counter at 0.
FetchChatRoom_DefaultZero(s) ==
    IF ChatRoomPda \in DOMAIN s
    THEN [ok |-> TRUE, account |-> s[ChatRoomPda]]
    ELSE [ok |-> TRUE, account |-> [kind |-> "chatRoom", messageCount |-> 0]]

\* program.account.chatRoom.fetch(chatRoomPda): the account, or an error
\* when the address holds none.
FetchChatRoom(s) ==
    IF ChatRoomPda \in DOMAIN s
    THEN [ok |-> TRUE, account |-> s[ChatRoomPda]]
    ELSE [ok |-> FALSE, error |-> "Account does not exist"]

\* Variant: the catch block logs and does not rethrow, as
\* initializeChatRoom's does.
sendMessageCatch_Swallow(error) == [thrown |-> FALSE, error |-> error]

\* The catch block of sendMessage: the error is logged and rethrown.
sendMessageCatch(error) == [thrown |-> TRUE, error |-> error]

\* sendMessage up to its rpc: read the counter, derive the message
\* address from it, keep the arguments.  message is the plaintext the
\* command line encrypted (empty for a direct caller).
BeginSendMessage(c, encryptedMessage, recipient, message) ==
    LET f == FetchChatRoom(store)
    IN  IF f.ok
        THEN /\ f.account.messageCount < MaxMessages
             /\ proc' = [proc EXCEPT ![c] =
                    [Idle EXCEPT !.pc = "send",
                                 !.command = "send",
                                 !.messageCount = f.account.messageCount,
                                 !.messagePda = MessagePda(f.account.messageCount),
                                 !.encryptedMessage = encryptedMessage,
                                 !.recipient = recipient,
                                 !.message = message]]
        ELSE LET e == sendMessageCatch(f.error)
             IN  proc' = [proc EXCEPT ![c] =
                    [Idle EXCEPT !.pc = IF e.thrown THEN "failed" ELSE "sent",
                                 !.command = "send",
                                 !.error = e.error]]

\* node cli.js send [from] [to] [message]: encrypt under the recipient's
\* RSA public key, then sendMessage.
CliSend(c) ==
    /\ Quiet
    /\ proc[c].pc = "idle"
    /\ \E args \in CliSendArgs, seed \in OaepSeeds :
         /\ args[1] = c
         /\ LET enc == Cached(EncryptTable, <<args[3], args[2], seed>>,
                              encryptMessage(args[3], EncryptionKeys(args[2]).publicKey, seed))
            IN  IF enc.ok
                THEN BeginSendMessage(c, enc.value, args[2], args[3])
                ELSE proc' = [proc EXCEPT ![c] =
                        [Idle EXCEPT !.pc = "failed",
                                     !.command = "send",
                                     !.recipient = args[2],
                                     !.message = args[3],
                                     !.error = enc.error]]
    /\ UNCHANGED <<store, clock, log, codec, pending, seen, keys>>

\* A direct caller of sendMessage (the test suite, the demo).
ApiSend(c) ==
    /\ Quiet
    /\ proc[c].pc = "idle"
    /\ \E args \in ApiSendArgs :
         /\ args[1] = c
         /\ BeginSendMessage(c, args[2], args[3], <<>>)
    /\ UNCHANGED <<store, clock, log, codec, pending, seen, keys>>

\* const messageBytes = Buffer.from(encryptedMessage, 'base64')
MessageBytes(c) ==
    Cached(BufferFromBase64Table, proc[c].encryptedMessage,
           BufferFromBase64(proc[c].encryptedMessage))

\* Variant: the recipient is passed for the sender and the sender for the
\* recipient.
SendTransaction_SwappedIdentities(c) ==
    ProgramSendMessage(store, proc[c].messagePda, ChatRoomPda,
                       IdentityOf(proc[c].recipient), MessageBytes(c),
                       IdentityOf(c), clock)

\* The send_message transaction sendMessage submits.
SendTransaction(c) ==
    ProgramSendMessage(store, proc[c].messagePda, ChatRoomPda, IdentityOf(c),
                       MessageBytes(c), IdentityOf(proc[c].recipient), clock)

LogEntry(c) ==
    [by |-> c, messageCount |-> proc[c].messageCount,
     messagePda |-> proc[c].messagePda, recipient |-> proc[c].recipient,
     encryptedMessage |-> proc[c].encryptedMessage, message |-> proc[c].message]

\* The ledger processes the transaction and the client gets its answer.
SendRpc(c) ==
    /\ Quiet
    /\ proc[c].pc = "send"
    /\ LET r == SendTransaction(c)
       IN  /\ store' = r.store
           /\ IF r.ok
              THEN /\ Finish(c, "send", "sent", "")
                   /\ log' = Append(log, LogEntry(c))
              ELSE LET e == sendMessageCatch(r.error)
                   IN  /\ Finish(c, "send", IF e.thrown THEN "failed" ELSE "sent", e.error)
                       /\ log' = log
    /\ UNCHANGED <<clock, codec, pending, seen, keys>>

\* The rpc meets a transport error (time out, node unreachable): the
\* client sees the error whether or not the transaction landed.
SendRpcTransportError(c) ==
    /\ Quiet
    /\ proc[c].pc = "send"
    /\ \E landed \in BOOLEAN :
         LET r == SendTransaction(c)
             e == sendMessageCatch("TransportError")
         IN  /\ store' = IF landed THEN r.store ELSE store
             /\ log' = IF landed /\ r.ok THEN Append(log, LogEntry(c)) ELSE log
             /\ Finish(c, "send", IF e.thrown THEN "failed" ELSE "sent", e.error)
    /\ UNCHANGED <<clock, codec, pending, seen, keys>>

(***************************************************************************)
(* EncryptedChat.getMessagesForUser(userPublicKey) and                     *)
(* node cli.js read [user]                                                 *)
(***************************************************************************)
MessageAddresses(s) == {a \in DOMAIN s : s[a].kind = "message"}

\* program.account.message.all(): every message account, in an order the
\* ledger node chooses.
MessageAll(s) ==
    LET addrs == MessageAddresses(s)
        n == Cardinality(addrs)
    IN  {[i \in 1..n |-> [publicKey |-> order[i], account |-> s[order[i]]]] :
            order \in {f \in [1..n -> addrs] : \A i, j \in 1..n : f[i] = f[j] => i = j}}

\* The decimal digits of a number (BN.toString()).
RECURSIVE Decimal(_)
Decimal(n) == IF n < 10 THEN <<n>> ELSE Append(Decimal(n \div 10), n % 10)

\* Variant: the filter compares the sender.
IsForUser_BySender(msg, userPublicKey) == msg.account.sender = userPublicKey

\* The filter of getMessagesForUser: the messages received by the user.
IsForUser(msg, userPublicKey) == msg.account.recipient = userPublicKey

\* The object getMessagesForUser builds for one message account.
UserMessage(msg) ==
    [sender |-> msg.account.sender,
     recipient |-> msg.account.recipient,
     encryptedContent |-> Cached(BufferToBase64Table, msg.account.encryptedContent,
                                 BufferToBase64(msg.account.encryptedContent)),
     timestamp |-> msg.account.timestamp * 1000,
     messageId |-> Decimal(msg.account.messageId),
     publicKey |-> msg.publicKey]

\* getMessagesForUser on the listing the ledger returned: filter, then map,
\* in the listing's order.
getMessagesForUser(messages, userPublicKey) ==
    LET userMessages == SelectSeq(messages, LAMBDA msg : IsForUser(msg, userPublicKey))
    IN  [i \in 1..Len(userMessages) |-> UserMessage(userMessages[i])]

\* The body of the forEach of the read command: the decrypted text, or
\* the one line printed when decryptMessage throws.
ReadOne(msg, reader) ==
    LET d == Cached(DecryptTable, <<msg.encryptedContent, reader>>,
                    decryptMessage(msg.encryptedContent, EncryptionKeys(reader).privateKey))
    IN  IF d.ok THEN [decrypted |-> TRUE, text |-> d.value]
        ELSE [decrypted |-> FALSE, text |-> <<>>]

\* Variant: the first message that does not decrypt ends the loop.
ReadAll_AbortOnFailure(messages, reader) ==
    LET failures == {i \in 1..Len(messages) : ~ReadOne(messages[i], reader).decrypted}
        last == IF failures = {} THEN Len(messages)
                ELSE (CHOOSE i \in failures : \A j \in failures : i <= j) - 1
    IN  [i \in 1..last |-> ReadOne(messages[i], reader)]

\* messages.forEach of the read command: every message in turn, each in
\* its own try block.
ReadAll(messages, reader) ==
    [i \in 1..Len(messages) |-> ReadOne(messages[i], reader)]

\* Variant: the scan takes the records it returns off the ledger.
CliRead_Consuming(c) ==
    /\ Quiet
    /\ proc[c].pc = "idle"
    /\ \E listing \in MessageAll(store) :
         LET messages == getMessagesForUser(listing, IdentityOf(c))
             taken == {messages[i].publicKey : i \in 1..Len(messages)}
         IN  /\ proc' = [proc EXCEPT ![c] =
                    [Idle EXCEPT !.pc = "read",
                                 !.command = "read",
                                 !.messages = messages,
                                 !.output = ReadAll(messages, c)]]
             /\ store' = [a \in DOMAIN store \ taken |-> store[a]]
    /\ UNCHANGED <<clock, log, codec, pending, seen, keys>>

\* node cli.js read [user]: scan, then decrypt each message in turn.
CliRead(c) ==
    /\ Quiet
    /\ proc[c].pc = "idle"
    /\ \E listing \in MessageAll(store) :
         LET messages == getMessagesForUser(listing, IdentityOf(c))
         IN  proc' = [proc EXCEPT ![c] =
                [Idle EXCEPT !.pc = "read",
                             !.command = "read",
                             !.messages = messages,
                             !.output = ReadAll(messages, c)]]
    /\ UNCHANGED <<store, clock, log, codec, pending, seen, keys>>

\* The scan's rpc fails: getMessagesForUser rethrows, main reports it.
CliReadTransportError(c) ==
    /\ Quiet
    /\ proc[c].pc = "idle"
    /\ Finish(c, "read", "failed", "TransportError")
    /\ UNCHANGED <<store, clock, log, codec, pending, seen, keys>>

\* The command's process ends.
Exit(c) ==
    /\ proc[c].pc \in {"initialized", "sent", "failed", "read"}
    /\ proc' = [proc EXCEPT ![c] = Idle]
    /\ UNCHANGED <<store, clock, log, codec, pending, seen, keys>>

Next ==
    \/ Tick
    \/ \E c \in Users :
         \/ CliInit(c)
         \/ CliInitTransportError(c)
         \/ CliSend(c)
         \/ ApiSend(c)
         \/ SendRpc(c)
         \/ SendRpcTransportError(c)
         \/ CliRead(c)
         \/ CliReadTransportError(c)
         \/ Exit(c)

Spec == Init /\ [][Next]_vars

(***************************************************************************)
(* The codec and the address derivation run on their own, as quick-test.js *)
(* and the demo run them: encryptMessage, then decryptMessage, with no     *)
(* ledger in between; findProgramAddress for a message count.              *)
(***************************************************************************)
\* "é": one code unit, in the range of a byte.
Accent == <<233>>

\* "Hi " and U+1F512 (the lock of the demo's message), the surrogate pair
\* D83D DD12.
HiLock == <<72, 105, 32, 55357, 56594>>

CodecMessages == {<<>>, Hi, Yo, Accent, HiLock, Longest, TooLong}

\* The seeds RSA-OAEP may draw in a codec run.
CodecSeeds == {0, 1}

\* Message counts an address is derived for.
PdaCounts == {0, 1, 255, 256, 257, 65536, 16777216}

\* chat.encryptMessage(message, keys.publicKey)
CodecEncrypt ==
    /\ codec.pc = "start"
    /\ \E message \in CodecMessages, to \in Users, seed \in CodecSeeds :
         codec' = [CodecIdle EXCEPT
                      !.pc = "encrypted",
                      !.message = message,
                      !.to = to,
                      !.encrypted =
                          encryptMessage(message, EncryptionKeys(to).publicKey, seed)]
    /\ UNCHANGED <<store, clock, proc, log, pending, seen, keys>>

\* chat.decryptMessage(encryptedMessage, keys.privateKey)
CodecDecrypt ==
    /\ codec.pc = "encrypted"
    /\ codec.encrypted.ok
    /\ \E by \in Users :
         codec' = [codec EXCEPT
                      !.pc = "decrypted",
                      !.by = by,
                      !.decrypted =
                          decryptMessage(codec.encrypted.value,
                                         EncryptionKeys(by).privateKey)]
    /\ UNCHANGED <<store, clock, proc, log, pending, seen, keys>>

\* A base64 text as it reaches the reader damaged: its last four
\* characters lost, or its first character replaced.
Truncated(text) == SubSeq(text, 1, Len(text) - 4)
Corrupted(text) == [i \in 1..Len(text) |-> IF i = 1 THEN 63 - text[1] ELSE text[i]]

\* chat.decryptMessage on a damaged text, with the key it was made for.
CodecDecryptDamaged ==
    /\ codec.pc = "encrypted"
    /\ codec.encrypted.ok
    /\ \E text \in {Truncated(codec.encrypted.value),
                     Corrupted(codec.encrypted.value)} :
         codec' = [codec EXCEPT
                      !.pc = "decryptedDamaged",
                      !.by = codec.to,
                      !.encrypted = [ok |-> TRUE, value |-> text],
                      !.decrypted =
                          decryptMessage(text, EncryptionKeys(codec.to).privateKey)]
    /\ UNCHANGED <<store, clock, proc, log, pending, seen, keys>>

\* Two parties derive the address of a message, each from its own count.
CodecDerive ==
    /\ codec.pc = "start"
    /\ \E i, j \in PdaCounts :
         codec' = [CodecIdle EXCEPT
                      !.pc = "derived",
                      !.counts = <<i, j>>,
                      !.pdas = <<MessagePda(i), MessagePda(j)>>]
    /\ UNCHANGED <<store, clock, proc, log, pending, seen, keys>>

\* The run ends.
CodecDone ==
    /\ codec.pc # "start"
    /\ codec' = CodecIdle
    /\ UNCHANGED <<store, clock, proc, log, pending, seen, keys>>

CodecNext ==
    \/ CodecEncrypt
    \/ CodecDecrypt
    \/ CodecDecryptDamaged
    \/ CodecDerive
    \/ CodecDone

CodecSpec == Init /\ [][CodecNext]_vars

(***************************************************************************)
(* Senders that retry.  Each label has a queue of sends to make and runs   *)
(* `node cli.js send` for the first of them; when the command fails the    *)
(* label runs it again, and sendMessage reads the counter anew; when it    *)
(* succeeds the label goes on to the next.  The room has been              *)
(* initialized, the queues hold MaxMessages sends between them, and the    *)
(* transport does not fail.  Every label is a process of its own and the   *)
(* ledger answers every transaction: each step is weakly fair.             *)
(***************************************************************************)
\* The sends of a label that encrypt.
Sendable(c) == {a \in CliSendArgs : a[1] = c /\ Len(a[3]) <= MaxPayload}

RetryInit ==
    /\ store = ProgramInitialize([a \in {} |-> 0], ChatRoomPda).store
    /\ clock = 0
    /\ proc = [c \in Users |-> Idle]
    /\ log = <<>>
    /\ codec = CodecIdle
    /\ \E k \in 0..MaxMessages :
         \E qa \in [1..k -> Sendable("alice")],
            qb \in [1..(MaxMessages - k) -> Sendable("bob")] :
             pending = [c \in Users |->
                          [queue |-> IF c = "alice" THEN qa ELSE qb,
                           rejected |-> 0]]
    /\ seen = [c \in Users |-> {}]
    /\ keys = KeysAfterSetup

\* node cli.js send [from] [to] [message] for the first send of the queue.
RetrySend(c) ==
    /\ Quiet
    /\ proc[c].pc = "idle"
    /\ pending[c].queue # <<>>
    /\ \E seed \in OaepSeeds :
         LET args == Head(pending[c].queue)
             enc == Cached(EncryptTable, <<args[3], args[2], seed>>,
                           encryptMessage(args[3], EncryptionKeys(args[2]).publicKey, seed))
         IN  BeginSendMessage(c, enc.value, args[2], args[3])
    /\ UNCHANGED <<store, clock, log, codec, pending, seen, keys>>

\* The command has ended: after 'Message sent' the label goes on to its
\* next send, after an error it keeps the send to run it again.
RetryExit(c) ==
    /\ proc[c].pc \in {"sent", "failed"}
    /\ proc' = [proc EXCEPT ![c] = Idle]
    /\ pending' = [pending EXCEPT ![c] =
                      IF proc[c].pc = "sent"
                      THEN [@ EXCEPT !.queue = Tail(@)]
                      ELSE [@ EXCEPT !.rejected =
                                         IF @ < MaxMessages THEN @ + 1 ELSE @]]
    /\ UNCHANGED <<store, clock, log, codec, seen, keys>>

RetryNext ==
    \/ Tick
    \/ \E c \in Users :
         \/ RetrySend(c)
         \/ SendRpc(c)
         \/ RetryExit(c)

RetryFairness ==
    \A c \in Users :
        /\ WF_vars(RetrySend(c))
        /\ WF_vars(SendRpc(c))
        /\ WF_vars(RetryExit(c))

RetrySpec == RetryInit /\ [][RetryNext]_vars /\ RetryFairness

(***************************************************************************)
(* A reader that scans again and again while sends are made: the commands  *)
(* init, send and read of the two labels, with the messages each scan      *)
(* returned kept as history when the read command ends.                    *)
(***************************************************************************)
\* The array a scan returned, as the set of its elements.
Returned(messages) == {messages[i] : i \in 1..Len(messages)}

\* The command's process ends; what a read returned is remembered.
ScanExit(c) ==
    /\ proc[c].pc \in {"initialized", "sent", "failed", "read"}
    /\ proc' = [proc EXCEPT ![c] = Idle]
    /\ seen' = IF proc[c].pc = "read"
               THEN [seen EXCEPT ![c] = Returned(proc[c].messages)]
               ELSE seen
    /\ UNCHANGED <<store, clock, log, codec, pending, keys>>

ScanNext ==
    \/ Tick
    \/ \E c \in Users :
         \/ CliInit(c)
         \/ CliSend(c)
         \/ SendRpc(c)
         \/ CliRead(c)
         \/ ScanExit(c)

ScanSpec == Init /\ [][ScanNext]_vars

(***************************************************************************)
(* The command line on a machine whose keys directory does not exist yet:  *)
(* setup, balance, airdrop, init, send and read in any order, one command  *)
(* after another, each run to its end.  Every command gets its keys from   *)
(* loadOrCreateKeypair and loadOrCreateEncryptionKeys.  A generated key    *)
(* pair is new: it carries the number of key pairs made so far plus one.   *)
(***************************************************************************)
NoKeys == [dir |-> FALSE, made |-> 0, files |-> [f \in {} |-> 0]]

\* fs.writeFileSync(path, data) in the keys directory.
WriteFile(k, filename, data) ==
    [k EXCEPT !.made = @ + 1,
              !.files = [f \in DOMAIN k.files \cup {filename} |->
                           IF f = filename THEN data ELSE k.files[f]]]

\* loadOrCreateKeypair(filename): the keypair of the file when it exists;
\* otherwise the directory is made if missing, a keypair is generated and
\* written.
loadOrCreateKeypair(k, filename) ==
    IF filename \in DOMAIN k.files
    THEN [keys |-> k, value |-> k.files[filename]]
    ELSE LET keypair == [pubkey |-> k.made + 1]
         IN  [keys |-> WriteFile([k EXCEPT !.dir = TRUE], filename, keypair),
              value |-> keypair]

\* Variant: the encryption keys are generated and written on every call.
loadOrCreateEncryptionKeys_Regenerate(k, filename) ==
    IF ~k.dir
    THEN [ok |-> FALSE, keys |-> k, value |-> generateKeyPair(k.made + 1)]
    ELSE [ok |-> TRUE,
          keys |-> WriteFile(k, filename, generateKeyPair(k.made + 1)),
          value |-> generateKeyPair(k.made + 1)]

\* loadOrCreateEncryptionKeys(filename): the keys of the file when it
\* exists; otherwise a key pair is generated and written (writeFileSync
\* throws when the directory is missing).
loadOrCreateEncryptionKeys(k, filename) ==
    IF filename \in DOMAIN k.files
    THEN [ok |-> TRUE, keys |-> k, value |-> k.files[filename]]
    ELSE IF ~k.dir
    THEN [ok |-> FALSE, keys |-> k, value |-> generateKeyPair(k.made + 1)]
    ELSE [ok |-> TRUE,
          keys |-> WriteFile(k, filename, generateKeyPair(k.made + 1)),
          value |-> generateKeyPair(k.made + 1)]

KeyInit ==
    /\ store = [a \in {} |-> 0]
    /\ clock = 0
    /\ proc = [c \in Users |-> Idle]
    /\ log = <<>>
    /\ codec = CodecIdle
    /\ pending = [c \in Users |-> NothingPending]
    /\ seen = [c \in Users |-> {}]
    /\ keys = NoKeys

\* node cli.js setup
KeySetup ==
    /\ LET a == loadOrCreateKeypair(keys, KeypairFile("alice"))
           b == loadOrCreateKeypair(a.keys, KeypairFile("bob"))
           ae == loadOrCreateEncryptionKeys(b.keys, EncryptionFile("alice"))
           be == loadOrCreateEncryptionKeys(ae.keys, EncryptionFile("bob"))
       IN  keys' = be.keys
    /\ UNCHANGED <<store, clock, proc, log, codec, pending, seen>>

\* node cli.js balance [user]
KeyBalance(c) ==
    /\ keys' = loadOrCreateKeypair(keys, KeypairFile(c)).keys
    /\ proc' = [proc EXCEPT ![c] = [Idle EXCEPT !.command = "balance"]]
    /\ UNCHANGED <<store, clock, log, codec, pending, seen>>

\* node cli.js airdrop [user]
KeyAirdrop(c) ==
    /\ keys' = loadOrCreateKeypair(keys, KeypairFile(c)).keys
    /\ proc' = [proc EXCEPT ![c] = [Idle EXCEPT !.command = "airdrop"]]
    /\ UNCHANGED <<store, clock, log, codec, pending, seen>>

\* node cli.js init [user]
KeyInitRoom(c) ==
    /\ keys' = loadOrCreateKeypair(keys, KeypairFile(c)).keys
    /\ LET r == ProgramInitialize(store, ChatRoomPda)
           ret == initializeChatRoom(r.error)
       IN  /\ store' = r.store
           /\ proc' = [proc EXCEPT ![c] =
                  [Idle EXCEPT !.command = "init",
                               !.pc = IF ret.thrown THEN "failed" ELSE "initialized",
                               !.error = ret.logged]]
    /\ UNCHANGED <<clock, log, codec, pending, seen>>

\* node cli.js send [from] [to] [message]
KeySend(c) ==
    \E args \in CliSendArgs, seed \in OaepSeeds :
        /\ args[1] = c
        /\ LET sender == loadOrCreateKeypair(keys, KeypairFile(c))
               recipient == loadOrCreateKeypair(sender.keys, KeypairFile(args[2]))
               recipientEncryption ==
                   loadOrCreateEncryptionKeys(recipient.keys, EncryptionFile(args[2]))
               enc == Cached(GeneratedEncryptTable,
                             <<args[3], recipientEncryption.value.publicKey.key, seed>>,
                             encryptMessage(args[3], recipientEncryption.value.publicKey, seed))
               messageBytes == Cached(BufferFromBase64Table, enc.value,
                                      BufferFromBase64(enc.value))
               f == FetchChatRoom(store)
               failed(error) ==
                   [Idle EXCEPT !.command = "send", !.pc = "failed",
                                !.recipient = args[2], !.message = args[3],
                                !.error = error]
           IN  /\ keys' = recipientEncryption.keys
               /\ IF ~recipientEncryption.ok
                  THEN /\ proc' = [proc EXCEPT ![c] = failed("ENOENT")]
                       /\ UNCHANGED <<store, log>>
                  ELSE IF ~enc.ok
                  THEN /\ proc' = [proc EXCEPT ![c] = failed(enc.error)]
                       /\ UNCHANGED <<store, log>>
                  ELSE IF ~f.ok
                  THEN /\ proc' = [proc EXCEPT ![c] = failed(sendMessageCatch(f.error).error)]
                       /\ UNCHANGED <<store, log>>
                  ELSE LET n == f.account.messageCount
                           tx == ProgramSendMessage(store, MessagePda(n), ChatRoomPda,
                                                    sender.value, messageBytes,
                                                    recipient.value, clock)
                           sent == [Idle EXCEPT !.command = "send", !.pc = "sent",
                                                !.messageCount = n,
                                                !.messagePda = MessagePda(n),
                                                !.encryptedMessage = enc.value,
                                                !.recipient = args[2],
                                                !.message = args[3]]
                       IN  /\ n < MaxMessages
                           /\ store' = tx.store
                           /\ IF tx.ok
                              THEN /\ proc' = [proc EXCEPT ![c] = sent]
                                   /\ log' = Append(log,
                                         [by |-> c, messageCount |-> n,
                                          messagePda |-> MessagePda(n),
                                          recipient |-> args[2],
                                          encryptedMessage |-> enc.value,
                                          message |-> args[3]])
                              ELSE /\ proc' = [proc EXCEPT ![c] =
                                                  failed(sendMessageCatch(tx.error).error)]
                                   /\ log' = log
        /\ UNCHANGED <<clock, codec, pending, seen>>

\* The body of the forEach of the read command, under the private key the
\* command loaded.
KeyReadOne(msg, privateKey) ==
    LET d == Cached(GeneratedDecryptTable, <<msg.encryptedContent, privateKey.key>>,
                    decryptMessage(msg.encryptedContent, privateKey))
    IN  IF d.ok THEN [decrypted |-> TRUE, text |-> d.value]
        ELSE [decrypted |-> FALSE, text |-> <<>>]

\* node cli.js read [user]
KeyRead(c) ==
    /\ LET reader == loadOrCreateKeypair(keys, KeypairFile(c))
           readerEncryption == loadOrCreateEncryptionKeys(reader.keys, EncryptionFile(c))
       IN  /\ keys' = readerEncryption.keys
           /\ IF ~readerEncryption.ok
              THEN proc' = [proc EXCEPT ![c] =
                      [Idle EXCEPT !.command = "read", !.pc = "failed", !.error = "ENOENT"]]
              ELSE \E listing \in MessageAll(store) :
                     LET messages == getMessagesForUser(listing, reader.value)
                     IN  proc' = [proc EXCEPT ![c] =
                            [Idle EXCEPT !.command = "read",
                                         !.pc = "read",
                                         !.messages = messages,
                                         !.output =
                                            [i \in 1..Len(messages) |->
                                                KeyReadOne(messages[i],
                                                           readerEncryption.value.privateKey)]]]
    /\ UNCHANGED <<store, clock, log, codec, pending, seen>>

KeyNext ==
    \/ KeySetup
    \/ \E c \in Users :
         \/ KeyBalance(c)
         \/ KeyAirdrop(c)
         \/ KeyInitRoom(c)
         \/ KeySend(c)
         \/ KeyRead(c)

KeySpec == KeyInit /\ [][KeyNext]_vars

(***************************************************************************)
(* Notions the properties below are stated in.                             *)
(***************************************************************************)
Initialized == ChatRoomPda \in DOMAIN store

\* message_count of the RoomCounter.
MessageCount == store[ChatRoomPda].messageCount

\* The address the specification derives for sequence number n:
\* derive("message", little_endian_u64(n)).
AddressOf(n) == [seeds |-> <<"message", [i \in 1..8 |-> ByteLE(n, i)]>>]

\* The number a string of decimal digits denotes.
RECURSIVE DecimalValue(_)
DecimalValue(d) ==
    IF Len(d) = 0 THEN 0
    ELSE 10 * DecimalValue(SubSeq(d, 1, Len(d) - 1)) + d[Len(d)]

\* The committed sends addressed to a label, in commit order.
SendsTo(label) == SelectSeq(log, LAMBDA e : e.recipient = label)

\* The texts the read command printed, failures included, in print order.
Printed(c) == [i \in 1..Len(proc[c].output) |-> proc[c].output[i].text]

Reading(c) == proc[c].pc = "read"

\* The committed send that wrote the record at an address.
SentAt(address) == log[CHOOSE i \in 1..Len(log) : log[i].messagePda = address]

(***************************************************************************)
(* C1.  After any sequence of successful sends addressed to R, each        *)
(* encrypted under R's public key, a receive for R yields exactly the      *)
(* plaintexts of those sends, in the order the sends were made.            *)
(* Stated as the claim has it; the code does not keep the order.          *)
(***************************************************************************)
C1_ReceiveYieldsPlaintextsInSendOrder ==
    \A c \in Users :
        (/\ Reading(c)
         /\ \A i \in 1..Len(SendsTo(c)) : SendsTo(c)[i].message # <<>>)
        => /\ \A i \in 1..Len(proc[c].output) : proc[c].output[i].decrypted
           /\ Printed(c) = [i \in 1..Len(SendsTo(c)) |-> SendsTo(c)[i].message]

(***************************************************************************)
(* C7.  After N successful appends of which M target recipient R,          *)
(* getMessagesForUser(R) returns exactly M records, every one with         *)
(* recipient R, and no record addressed to another identity.               *)
(***************************************************************************)
C7_ScanReturnsExactlyTheRecipientsRecords ==
    \A c \in Users :
        Reading(c) =>
            /\ Len(proc[c].messages) = Len(SendsTo(c))
            /\ \A i \in 1..Len(proc[c].messages) :
                   proc[c].messages[i].recipient = IdentityOf(c)
            /\ {proc[c].messages[i].publicKey : i \in 1..Len(proc[c].messages)}
                   = {a \in MessageAddresses(store) : store[a].recipient = IdentityOf(c)}

\* Two appends, one of them to bob, and bob has scanned.
C7_Witness ==
    /\ Reading("bob")
    /\ Len(log) = 2
    /\ Len(SendsTo("bob")) = 1
    /\ Len(proc["bob"].messages) = 1

(***************************************************************************)
(* C8.  The recipient scan returns its records in strictly increasing      *)
(* message_id order, whatever order the store enumerates them in; the      *)
(* last element is the most recently appended message for the recipient.   *)
(* Stated as the claim has it; getMessagesForUser does not sort.           *)
(***************************************************************************)
C8_ScanInIncreasingMessageIdOrder ==
    \A c \in Users :
        Reading(c) =>
            \A i, j \in 1..Len(proc[c].messages) :
                i < j => DecimalValue(proc[c].messages[i].messageId)
                             < DecimalValue(proc[c].messages[j].messageId)

\* Two sends alice -> bob are committed and the scan lists the later first.
\* (The failing case of C1 and C8.)
StoreListsLaterMessageFirst ==
    /\ Reading("bob")
    /\ Len(proc["bob"].messages) = 2
    /\ proc["bob"].messages[1].publicKey = AddressOf(1)
    /\ proc["bob"].messages[2].publicKey = AddressOf(0)

(***************************************************************************)
(* C2.  For N successful appends to a freshly initialized namespace the    *)
(* message_ids assigned are 0, 1, ..., N-1 in call order, and              *)
(* message_count is N afterwards.                                          *)
(***************************************************************************)
C2_IdsFollowCallOrder ==
    /\ ~Initialized => log = <<>>
    /\ Initialized =>
          /\ MessageCount = Len(log)
          /\ \A i \in 1..Len(log) :
                /\ log[i].messagePda \in DOMAIN store
                /\ store[log[i].messagePda].messageId = i - 1

\* Two appends are committed.
C2_Witness ==
    /\ Initialized
    /\ Len(log) = 2
    /\ MessageCount = 2
    /\ store[log[2].messagePda].messageId = 1

(***************************************************************************)
(* C3.  In every reachable state message_count equals the number of        *)
(* MessageRecords appended so far, and message_count never decreases from  *)
(* one state to the next.                                                  *)
(***************************************************************************)
C3_CountIsNumberOfRecordsAndNeverDecreases ==
    /\ [](Initialized =>
            /\ MessageCount = Cardinality(MessageAddresses(store))
            /\ MessageCount = Len(log))
    /\ [][Initialized => Initialized' /\ MessageCount' >= MessageCount]_vars

\* A send has just been rejected in a room that holds two messages.
C3_Witness ==
    /\ Initialized
    /\ MessageCount = 2
    /\ \E c \in Users : proc[c].command = "send" /\ proc[c].pc = "failed"

(***************************************************************************)
(* C4.  Every record's message_id is the message_count its sender read,    *)
(* no two records share a message_id, and a record appended later has a    *)
(* strictly larger message_id, also when sends are repeated after a        *)
(* collision or a timeout.                                                 *)
(***************************************************************************)
C4_MessageIdIsCountReadUniqueIncreasing ==
    /\ \A i \in 1..Len(log) :
          /\ log[i].messagePda \in DOMAIN store
          /\ store[log[i].messagePda].messageId = log[i].messageCount
    /\ \A a, b \in MessageAddresses(store) :
          a # b => store[a].messageId # store[b].messageId
    /\ \A i, j \in 1..Len(log) :
          i < j => store[log[i].messagePda].messageId
                       < store[log[j].messagePda].messageId

\* The same send by the same label is committed twice, the second time
\* under a transport error reported to the sender.
C4_Witness ==
    /\ Len(log) = 2
    /\ \E c \in Users :
          /\ proc[c].command = "send"
          /\ proc[c].pc = "failed"
          /\ proc[c].error = "TransportError"
          /\ log[1].by = c /\ log[2].by = c
          /\ log[2].messageCount = proc[c].messageCount
          /\ log[1].encryptedMessage = proc[c].encryptedMessage
          /\ log[2].encryptedMessage = proc[c].encryptedMessage
          /\ log[1].recipient = log[2].recipient

(***************************************************************************)
(* C5.  An append writes the record for sequence number n and moves        *)
(* message_count to n+1 together, or does neither: no state has the        *)
(* counter past a sequence number without its record, or a record at       *)
(* sequence number n while message_count is still n.                       *)
(***************************************************************************)
C5_AppendIsAllOrNothing ==
    /\ [](Initialized =>
            \A n \in 0..(MaxMessages + 1) :
                (AddressOf(n) \in DOMAIN store) <=> (n < MessageCount))
    /\ [][Initialized =>
            \/ store' = store
            \/ /\ MessageCount' = MessageCount + 1
               /\ DOMAIN store' = DOMAIN store \cup {AddressOf(MessageCount)}
               /\ \A a \in DOMAIN store \ {ChatRoomPda} : store'[a] = store[a]]_vars

\* One send was committed whole and another was rejected whole.
C5_Witness ==
    /\ Initialized
    /\ MessageCount = 1
    /\ AddressOf(0) \in DOMAIN store
    /\ \E c \in Users : proc[c].pc = "failed" /\ proc[c].error = "AddressCollision"

(***************************************************************************)
(* C6.  Of the concurrent sends that read the same counter value n, at     *)
(* most one succeeds; every other one is rejected, and a rejected send     *)
(* leaves the counter and the record at sequence number n unchanged.       *)
(***************************************************************************)
C6_OneWinnerPerCounterValue ==
    /\ [](\A i, j \in 1..Len(log) :
            i # j => log[i].messageCount # log[j].messageCount)
    /\ [][\A c \in Users :
            (/\ proc[c].pc = "send"
             /\ proc'[c].pc # "send"
             /\ proc[c].messageCount < MessageCount)
            => /\ store' = store
               /\ log' = log
               /\ proc'[c].pc = "failed"]_vars

\* Both labels read the same counter value; one send is committed, the
\* other has just been rejected.
C6_Witness ==
    \E c \in Users :
        /\ proc[c].pc = "failed"
        /\ proc[c].error = "AddressCollision"
        /\ \E i \in 1..Len(log) :
              /\ log[i].by # c
              /\ log[i].messageCount = proc[c].messageCount

(***************************************************************************)
(* C9.  initialize is idempotent on a fresh namespace: message_count is 0  *)
(* after the first call and after the second, and the second call raises   *)
(* no error to its caller.                                                 *)
(***************************************************************************)
C9_InitializeIsIdempotent ==
    \A c \in Users :
        proc[c].command = "init" =>
            /\ proc[c].pc = "initialized"
            /\ (proc[c].error \in {"", "AlreadyInitialized"} /\ log = <<>>)
                   => (Initialized /\ MessageCount = 0)

\* The second call on a fresh namespace has returned.
C9_Witness ==
    \E c \in Users :
        /\ proc[c].command = "init"
        /\ proc[c].pc = "initialized"
        /\ proc[c].error = "AlreadyInitialized"
        /\ MessageCount = 0

(***************************************************************************)
(* C10.  A send whose ciphertext is longer than 512 bytes fails with       *)
(* PayloadTooLarge, and message_count and the stored records are the same  *)
(* after the failed send as before it.                                     *)
(***************************************************************************)
C10_OversizedSendFailsAndChangesNothing ==
    [][\A c \in Users :
         (/\ proc[c].pc = "send"
          /\ proc'[c].pc # "send"
          /\ Len(MessageBytes(c)) > 512)
         => /\ SendTransaction(c).error = "PayloadTooLarge"
            /\ proc'[c].pc = "failed"
            /\ proc'[c].error \in {"PayloadTooLarge", "TransportError"}
            /\ store' = store
            /\ log' = log]_vars

\* An oversized send has just failed in a room that holds a message.
C10_Witness ==
    \E c \in Users :
        /\ proc[c].pc = "failed"
        /\ proc[c].error = "PayloadTooLarge"
        /\ Len(proc[c].encryptedMessage) > 0
        /\ Initialized
        /\ MessageCount = 1

(***************************************************************************)
(* C11.  Round trip: for every plaintext P within the maximum payload and  *)
(* every matching key pair (pub, priv),                                    *)
(* decryptMessage(encryptMessage(P, pub), priv) = P.                       *)
(* Stated as the claim has it; a plaintext with a code unit over 255 does  *)
(* not come back.                                                          *)
(***************************************************************************)
C11_RoundTrip ==
    (/\ codec.pc = "decrypted"
     /\ codec.by = codec.to
     /\ Len(codec.message) <= MaxPayload)
    => /\ codec.decrypted.ok
       /\ codec.decrypted.value = codec.message

\* A plaintext of bytes has come back under the matching key.
RoundTripOfBytes ==
    /\ codec.pc = "decrypted"
    /\ codec.by = codec.to
    /\ codec.message = Longest
    /\ codec.decrypted.ok
    /\ codec.decrypted.value = Longest

C13_DecryptionFailureIsPerRecord ==
    \A c \in Users :
        Reading(c) =>
            /\ Len(proc[c].output) = Len(proc[c].messages)
            /\ \A i \in 1..Len(proc[c].messages) :
                   LET sent == SentAt(proc[c].messages[i].publicKey)
                   IN  IF sent.message = <<>>
                       THEN /\ ~proc[c].output[i].decrypted
                            /\ proc[c].output[i].text = <<>>
                       ELSE /\ proc[c].output[i].decrypted
                            /\ proc[c].output[i].text = sent.message

\* bob's scan lists a record that does not decrypt before one that does,
\* and the second was printed.
C13_Witness ==
    /\ Reading("bob")
    /\ Len(proc["bob"].output) = 2
    /\ ~proc["bob"].output[1].decrypted
    /\ proc["bob"].output[2].decrypted
    /\ proc["bob"].output[2].text \in {Hi, Yo}

(***************************************************************************)
(* C14.  A receive for a recipient to whom no message was ever addressed   *)
(* returns an empty sequence and raises no error, whatever other messages  *)
(* the namespace holds.  (A scan whose rpc never reached the ledger ends   *)
(* with the transport's error.)                                            *)
(***************************************************************************)
C14_EmptyInboxIsEmptyNotAnError ==
    \A c \in Users :
        (proc[c].command = "read" /\ SendsTo(c) = <<>>) =>
            \/ /\ proc[c].pc = "read"
               /\ proc[c].error = ""
               /\ proc[c].messages = <<>>
               /\ proc[c].output = <<>>
            \/ /\ proc[c].pc = "failed"
               /\ proc[c].error = "TransportError"

\* alice has scanned a namespace that holds two messages, both to bob.
C14_Witness ==
    /\ Reading("alice")
    /\ Len(log) = 2
    /\ Len(SendsTo("bob")) = 2
    /\ Cardinality(MessageAddresses(store)) = 2
    /\ proc["alice"].messages = <<>>

(***************************************************************************)
(* C15.  MessageRecords are immutable and never deleted: once a record     *)
(* exists at the address for sequence number n, every later state holds    *)
(* the same record there, whatever initialize, send or scan follows.       *)
(***************************************************************************)
C15_RecordsAreImmutable ==
    [][\A a \in MessageAddresses(store) :
          /\ a \in DOMAIN store'
          /\ store'[a] = store[a]]_vars

\* The record of sequence number 0 is in place after a second send, and an
\* initialize has just been answered.
C15_Witness ==
    /\ Initialized
    /\ MessageCount = 2
    /\ AddressOf(0) \in DOMAIN store
    /\ store[AddressOf(0)].messageId = 0
    /\ \E c \in Users : proc[c].command = "init" /\ proc[c].pc = "initialized"

(***************************************************************************)
(* C16.  After a successful send by authorized signer S to recipient R     *)
(* with ciphertext C while message_count was n, the record at the message  *)
(* address derived from n has sender = S, recipient = R,                   *)
(* encrypted_content = C byte for byte, and message_id = n.                *)
(***************************************************************************)
C16_RecordHoldsWhatWasSent ==
    \A i \in 1..Len(log) :
        LET sent == log[i]
            a == AddressOf(sent.messageCount)
        IN  /\ a \in DOMAIN store
            /\ store[a].sender = IdentityOf(sent.by)
            /\ store[a].recipient = IdentityOf(sent.recipient)
            /\ store[a].messageId = sent.messageCount
            /\ IF sent.message = <<>>
               THEN store[a].encryptedContent = MockEncryptedMessage
               ELSE /\ Len(store[a].encryptedContent) = ModulusBytes
                    /\ \E seed \in OaepSeeds :
                          store[a].encryptedContent =
                              RsaOaepEncrypt(sent.message,
                                             EncryptionKeys(sent.recipient).publicKey,
                                             seed)

\* A ciphertext of the command line and a payload of a direct caller are
\* both on the ledger.
C16_Witness ==
    /\ Len(log) = 2
    /\ log[1].message = <<>>
    /\ log[2].message = Hi
    /\ log[2].by = "bob"
    /\ store[AddressOf(1)].sender = IdentityOf("bob")

(***************************************************************************)
(* C17.  Address derivation is deterministic and injective: the message    *)
(* address for message_id i equals the one for message_id j only if        *)
(* i = j, no message address equals the counter address, and two parties   *)
(* deriving the address for the same message_id obtain the same address.   *)
(***************************************************************************)
C17_AddressesAreInjective ==
    codec.pc = "derived" =>
        /\ (codec.pdas[1] = codec.pdas[2]) <=> (codec.counts[1] = codec.counts[2])
        /\ codec.pdas[1] # ChatRoomPda
        /\ codec.pdas[2] # ChatRoomPda
        /\ \A k \in 1..2 :
              /\ codec.pdas[k].seeds[1] = "message"
              /\ Len(codec.pdas[k].seeds[2]) = 8
              /\ \A b \in 1..8 : codec.pdas[k].seeds[2][b] \in 0..255

\* The addresses of the counts 0 and 256 were derived, and they differ.
C17_Witness ==
    /\ codec.pc = "derived"
    /\ codec.counts = <<0, 256>>
    /\ codec.pdas[1] # codec.pdas[2]

C19_FailedSendIsReported ==
    /\ [](\A c \in Users :
            (proc[c].command = "send" /\ proc[c].pc = "sent")
            => /\ Initialized
               /\ MessageCount = proc[c].messageCount + 1
               /\ AddressOf(proc[c].messageCount) \in DOMAIN store
               /\ store[AddressOf(proc[c].messageCount)].sender = IdentityOf(c)
               /\ log # <<>>
               /\ log[Len(log)].by = c)
    /\ [][\A c \in Users :
            (/\ proc[c].pc \in {"idle", "send"}
             /\ proc'[c].command = "send"
             /\ proc'[c].pc \notin {"idle", "send"})
            => IF store' = store
               THEN /\ proc'[c].pc = "failed"
                    /\ proc'[c].error # ""
               ELSE \/ proc'[c].pc = "sent"
                    \/ /\ proc'[c].pc = "failed"
                       /\ proc'[c].error = "TransportError"]_vars

\* A send whose address was taken by two sends of the other label has
\* been answered with the failure.
C19_Witness ==
    \E c \in Users :
        /\ proc[c].command = "send"
        /\ proc[c].pc = "failed"
        /\ proc[c].error = "AddressCollision"
        /\ Len(log) = 2
        /\ \A i \in 1..Len(log) : log[i].by # c

(***************************************************************************)
(* C20.  Scans are read-only: getMessagesForUser leaves message_count and  *)
(* every stored record unchanged, also when it interleaves with            *)
(* concurrent appends and other scans.                                     *)
(***************************************************************************)
C20_ScansAreReadOnly ==
    [][\A c \in Users :
          (proc[c].pc = "idle" /\ proc'[c].command = "read")
          => /\ store' = store
             /\ log' = log
             /\ \A d \in Users \ {c} : proc'[d] = proc[d]]_vars

\* bob has scanned his inbox while a send of alice is in flight.
C20_Witness ==
    /\ Reading("bob")
    /\ Len(proc["bob"].messages) = 1
    /\ proc["alice"].pc = "send"
    /\ proc["alice"].messageCount = 1
    /\ MessageCount = 1

(***************************************************************************)
(* C21.  A decryption failure is observable only as one opaque failure:    *)
(* two failing decryptions that differ in cause (wrong key, truncated or   *)
(* corrupted ciphertext, bad padding) produce the same caller-visible      *)
(* output, with no cause-dependent message or log.                         *)
(* Stated as the claim has it; the error decryptMessage logs and rethrows  *)
(* is forge's, and forge words a wrong length differently.                 *)
(***************************************************************************)
\* What a caller sees of a decryption under the wrong key.
WrongKeyFailure ==
    decryptMessage(encryptMessage(Hi, EncryptionKeys("alice").publicKey, 0).value,
                   EncryptionKeys("bob").privateKey)

C21_DecryptionFailureIsOpaque ==
    (/\ codec.pc \in {"decrypted", "decryptedDamaged"}
     /\ ~codec.decrypted.ok)
    => codec.decrypted = WrongKeyFailure

\* A corrupted text and a wrong key fail alike.
CorruptedFailsLikeWrongKey ==
    /\ codec.pc = "decryptedDamaged"
    /\ codec.encrypted.value[1] # 0
    /\ ~codec.decrypted.ok
    /\ codec.decrypted = WrongKeyFailure

(***************************************************************************)
(* C22.  For a key of modulus_bytes bytes, encrypt succeeds exactly when   *)
(* len(plaintext) <= modulus_bytes - 2*hash_len - 2 and fails with an      *)
(* encryption error otherwise; on success the ciphertext is modulus_bytes  *)
(* long whatever the plaintext's length, hence within the record limit.    *)
(***************************************************************************)
C22_PayloadLimitAndCiphertextLength ==
    codec.pc = "encrypted" =>
        /\ codec.encrypted.ok <=>
               (Len(codec.message) <= ModulusBytes - 2 * HashLen - 2)
        /\ ~codec.encrypted.ok =>
               codec.encrypted.error = "RSAES-OAEP input message length is too long."
        /\ codec.encrypted.ok =>
               /\ Len(Decode64(codec.encrypted.value)) = ModulusBytes
               /\ Len(BufferFromBase64(codec.encrypted.value)) <= MaxRecordPayload

\* The longest plaintext was encrypted.
C22_Witness ==
    /\ codec.pc = "encrypted"
    /\ codec.message = Longest
    /\ codec.encrypted.ok
    /\ Len(Decode64(codec.encrypted.value)) = ModulusBytes

(***************************************************************************)
(* C23.  Liveness under contention: with finitely many senders, each with  *)
(* finitely many messages, and each rejected sender retrying the whole     *)
(* send with a freshly read counter, under fair scheduling every message   *)
(* is eventually appended, and among the sends racing on the same n one    *)
(* succeeds.                                                               *)
(***************************************************************************)
C23_EveryMessageIsEventuallyAppended ==
    /\ <>[](/\ \A c \in Users : pending[c].queue = <<>> /\ proc[c].pc = "idle"
            /\ Len(log) = MaxMessages
            /\ MessageCount = MaxMessages)
    /\ \A n \in 0..(MaxMessages - 1) :
          (\E c \in Users : proc[c].pc = "send" /\ proc[c].messageCount = n)
              ~> (/\ AddressOf(n) \in DOMAIN store
                  /\ \E i \in 1..Len(log) : log[i].messageCount = n)

\* Every queue is empty, and a label that was rejected has sent all it had.
C23_Witness ==
    /\ \A c \in Users : pending[c].queue = <<>> /\ proc[c].pc = "idle"
    /\ Len(log) = MaxMessages
    /\ \E c \in Users :
          /\ pending[c].rejected > 0
          /\ \E i \in 1..Len(log) : log[i].by = c

(***************************************************************************)
(* C24.  Calling initialize on a namespace that already holds k > 0        *)
(* messages is a no-op on the ledger: message_count stays k (it is not     *)
(* reset to 0) and every stored record is unchanged.                       *)
(***************************************************************************)
C24_InitializeOnMessagesIsNoOp ==
    [][\A c \in Users :
          (/\ proc[c].pc = "idle"
           /\ proc'[c].command = "init"
           /\ Initialized
           /\ MessageCount > 0)
          => /\ store' = store
             /\ log' = log
             /\ proc'[c].pc = "initialized"
             /\ proc'[c].error \in {"AlreadyInitialized", "TransportError"}]_vars

\* An initialize was answered 'already exists' in a room that holds one
\* message.
C24_Witness ==
    /\ Initialized
    /\ MessageCount = 1
    /\ store[AddressOf(0)].messageId = 0
    /\ \E c \in Users :
          /\ proc[c].command = "init"
          /\ proc[c].error = "AlreadyInitialized"

(***************************************************************************)
(* C25.  A send on a namespace that was never initialized fails at the     *)
(* counter read and changes nothing: no MessageRecord is created and no    *)
(* RoomCounter comes into existence as a side effect of the failed send.   *)
(***************************************************************************)
C25_SendBeforeInitializeFailsAtTheRead ==
    /\ [](~Initialized => DOMAIN store = {} /\ log = <<>>)
    /\ [][\A c \in Users :
            (/\ proc[c].pc = "idle"
             /\ proc'[c].command = "send"
             /\ Len(proc'[c].message) <= MaxPayload
             /\ ~Initialized)
            => /\ proc'[c].pc = "failed"
               /\ proc'[c].error = "Account does not exist"
               /\ store' = store
               /\ log' = log]_vars

\* A send has failed at the counter read; the ledger holds nothing.
C25_Witness ==
    /\ ~Initialized
    /\ DOMAIN store = {}
    /\ \E c \in Users :
          /\ proc[c].command = "send"
          /\ proc[c].pc = "failed"
          /\ proc[c].error = "Account does not exist"

(***************************************************************************)
(* C26.  Whenever the init operation reports success to its caller, the    *)
(* RoomCounter exists on the ledger; a failure of initialize other than    *)
(* 'already exists' is observed by the caller as a failure.                *)
(* Stated as the claim has it; initializeChatRoom swallows every error.    *)
(***************************************************************************)
C26_InitSuccessMeansCounterExists ==
    \A c \in Users :
        proc[c].command = "init" =>
            /\ proc[c].pc = "initialized" => Initialized
            /\ proc[c].error \notin {"", "AlreadyInitialized"} => proc[c].pc = "failed"

\* The init command has printed its success line and there is no counter.
InitReportedWithoutCounter ==
    /\ ~Initialized
    /\ \E c \in Users :
          /\ proc[c].command = "init"
          /\ proc[c].pc = "initialized"
          /\ proc[c].error = "TransportError"

(***************************************************************************)
(* C27.  The log has no gaps: in every reachable state the message_ids of  *)
(* the stored records are exactly 0 .. message_count - 1, and a record     *)
(* exists at the derived address of i if and only if i < message_count.    *)
(***************************************************************************)
C27_LogHasNoGaps ==
    /\ ~Initialized => MessageAddresses(store) = {}
    /\ Initialized =>
          /\ {store[a].messageId : a \in MessageAddresses(store)}
                 = 0..(MessageCount - 1)
          /\ MessageAddresses(store) = {AddressOf(i) : i \in 0..(MessageCount - 1)}
          /\ \A i \in 0..(MessageCount - 1) : store[AddressOf(i)].messageId = i

\* Two records, ids 0 and 1, after a send that landed behind a transport
\* error.
C27_Witness ==
    /\ Initialized
    /\ MessageCount = 2
    /\ MessageAddresses(store) = {AddressOf(0), AddressOf(1)}
    /\ \E c \in Users :
          /\ proc[c].command = "send"
          /\ proc[c].error = "TransportError"
          /\ proc[c].messageCount = 1

(***************************************************************************)
(* C28.  Successive scans by the same reader are monotone while appends    *)
(* run concurrently: every record an earlier scan returned is returned     *)
(* again by every later scan of that reader, with identical content.       *)
(***************************************************************************)
C28_SuccessiveScansAreMonotone ==
    \A c \in Users :
        Reading(c) => seen[c] \subseteq Returned(proc[c].messages)

\* A send was committed between two scans: the second scan has returned
\* the record of the first and one more.
C28_Witness ==
    \E c \in Users :
        /\ Reading(c)
        /\ seen[c] # {}
        /\ Cardinality(Returned(proc[c].messages)) > Cardinality(seen[c])

(***************************************************************************)
(* C29.  The base64 transport encoding is lossless across the ledger: for  *)
(* every successful send, the encryptedContent string getMessagesForUser   *)
(* returns for that record equals the base64 string that was passed to     *)
(* sendMessage.  Stated as the claim has it.                               *)
(***************************************************************************)
C29_ReturnedTextIsThePassedText ==
    \A c \in Users :
        Reading(c) =>
            \A i \in 1..Len(proc[c].messages) :
                proc[c].messages[i].encryptedContent
                    = SentAt(proc[c].messages[i].publicKey).encryptedMessage

(***************************************************************************)
(* C29, amended.  For every successful send, the encryptedContent string   *)
(* getMessagesForUser returns for that record is the canonical base64 of   *)
(* the bytes the passed string decodes to: the two strings decode to the   *)
(* same bytes, and they are equal whenever the passed string is what       *)
(* encryptMessage returned, so the bytes handed to decrypt are exactly the *)
(* bytes encrypt produced.                                                 *)
(***************************************************************************)
C29_ReturnedTextIsCanonicalOfPassedText ==
    \A c \in Users :
        Reading(c) =>
            \A i \in 1..Len(proc[c].messages) :
                LET returned == proc[c].messages[i].encryptedContent
                    sent == SentAt(proc[c].messages[i].publicKey)
                IN  /\ returned = Encode64(Decode64(sent.encryptedMessage))
                    /\ Decode64(returned) = BufferFromBase64(sent.encryptedMessage)
                    /\ sent.message # <<>> =>
                          /\ returned = sent.encryptedMessage
                          /\ \E seed \in OaepSeeds :
                                Decode64(returned) =
                                    RsaOaepEncrypt(sent.message,
                                                   EncryptionKeys(sent.recipient).publicKey,
                                                   seed)

\* One scan has returned a ciphertext of the command line and a payload a
\* direct caller passed as text broken into lines.
C29_Witness ==
    \E c \in Users :
        /\ Reading(c)
        /\ \E i, j \in 1..Len(proc[c].messages) :
              /\ SentAt(proc[c].messages[i].publicKey).message # <<>>
              /\ SentAt(proc[c].messages[j].publicKey).encryptedMessage
                    = Wrapped(Encode64(MockEncryptedMessage))

(***************************************************************************)
(* C30.  Key material is stable across the commands of the command line:   *)
(* once an identity keypair or an encryption key pair has been created     *)
(* for a label, every later command (setup, init, send, read, balance,     *)
(* airdrop, in any order) loads that same key pair and never regenerates   *)
(* or overwrites it, so a message sent to a label at one time is           *)
(* decryptable by a later read for that label.                             *)
(***************************************************************************)
\* The messages committed for a label, as the read command prints them.
SentTo(label) == {log[i].message : i \in {j \in 1..Len(log) : log[j].recipient = label}}

C30_KeyMaterialIsStable ==
    /\ [][\A f \in DOMAIN keys.files :
            /\ f \in DOMAIN keys'.files
            /\ keys'.files[f] = keys.files[f]]_vars
    /\ [](\A i \in 1..Len(log) :
            LET sent == log[i]
                record == store[sent.messagePda]
            IN  /\ {KeypairFile(sent.by), KeypairFile(sent.recipient),
                     EncryptionFile(sent.recipient)} \subseteq DOMAIN keys.files
                /\ record.sender = keys.files[KeypairFile(sent.by)]
                /\ record.recipient = keys.files[KeypairFile(sent.recipient)]
                /\ record.encryptedContent =
                      RsaOaepEncrypt(sent.message,
                                     keys.files[EncryptionFile(sent.recipient)].publicKey,
                                     0))
    /\ [][\A c \in Users :
            (proc'[c] # proc[c] /\ proc'[c].command = "read") =>
                /\ proc'[c].pc = "read"
                /\ \A i \in 1..Len(proc'[c].output) : proc'[c].output[i].decrypted
                /\ {proc'[c].output[i].text : i \in 1..Len(proc'[c].output)} = SentTo(c)]_vars

\* Two messages were sent to bob and a later read has decrypted both;
\* every key file is on disk.
C30_Witness ==
    /\ Cardinality(DOMAIN keys.files) = 2 * Cardinality(Users)
    /\ Printed("bob") \in {<<Hi, Yo>>, <<Yo, Hi>>}
    /\ proc["bob"].command = "read"
    /\ proc["alice"].command = "send"
    /\ keys.files[EncryptionFile("bob")] # keys.files[EncryptionFile("alice")]

====
